---- MODULE Spec2Model ----
(***************************************************************************)
(* The deep-research workflow of a-agent: the LangGraph state machine of   *)
(* src/src/workflow/graph.py, its nodes (workflow/nodes.py), its routing   *)
(* functions (workflow/routing.py), the state reducers (state/schema.py)   *)
(* and the response parsers (workflow/helpers.py).                         *)
(*                                                                         *)
(* One action models one graph node together with the conditional edge     *)
(* that LangGraph evaluates on the state right after the node's delta is   *)
(* applied through the reducers.  The LLM and the tools are external: an   *)
(* LLM call is a nondeterministic choice among raising, requesting tools   *)
(* and returning a text, the text being modelled by the shape of the JSON  *)
(* the response parser finds in it.                                        *)
(***************************************************************************)
EXTENDS Naturals, Sequences, FiniteSets

VARIABLES
    node,                       \* graph node that runs next ("END", "ABORTED" when over)
    categories,                 \* AgentState.categories
    current_phase,              \* AgentState.current_phase
    research_plan,              \* AgentState.research_plan
    discovery_messages,         \* AgentState.discovery_messages
    deep_research_messages,     \* AgentState.deep_research_messages
    discovered_apps,            \* AgentState.discovered_apps
    current_app_index,          \* AgentState.current_app_index
    scratchpad,                 \* AgentState.scratchpad
    is_research_sufficient,     \* AgentState.is_research_sufficient
    reflection_feedback,        \* AgentState.reflection_feedback
    apps_needing_more_research, \* AgentState.apps_needing_more_research
    cross_app_patterns,         \* AgentState.cross_app_patterns
    gaps,                       \* AgentState.gaps
    output_to_user,             \* AgentState.output_to_user
    json_output,                \* AgentState.json_output
    errors,                     \* AgentState.errors
    reflection_log,             \* history: one entry per execution of reflection_node
    research_log,               \* history: the cursor of each terminal deep_research_node step
    delta,                      \* reducers alone: the node delta being merged into the state
    response_text,              \* parsers alone: the terminal text handed to the parsers
    parsed                      \* parsers alone: what the parsers returned for it

vars == <<node, categories, current_phase, research_plan, discovery_messages,
          deep_research_messages, discovered_apps, current_app_index, scratchpad,
          is_research_sufficient, reflection_feedback, apps_needing_more_research,
          cross_app_patterns, gaps, output_to_user, json_output, errors,
          reflection_log, research_log, delta, response_text, parsed>>

\* the variables the workflow's nodes never touch
unit_vars == <<delta, response_text, parsed>>

(***************************************************************************)
(* Bounds of the model                                                     *)
(***************************************************************************)
\* longest conversation on which the LLM may still request tools
MaxMsgs == 4
\* most candidates one Discovery response lists
MaxNewApps == 2
\* longest category list of a planning-only run
MaxCats == 3

(***************************************************************************)
(* Sequences                                                               *)
(***************************************************************************)
SeqsUpTo(S, n) == UNION {[1..k -> S] : k \in 0..n}

Last(s) == s[Len(s)]

Take(s, n) == IF Len(s) <= n THEN s ELSE SubSeq(s, 1, n)

RECURSIVE Flatten(_)
Flatten(ss) == IF ss = <<>> THEN <<>> ELSE Head(ss) \o Flatten(Tail(ss))

Contains(s, x) == \E i \in DOMAIN s : s[i] = x

(***************************************************************************)
(* Names.  A name is a sequence of character codes; str.lower() maps the   *)
(* codes of "A".."Z" to those of "a".."z" and leaves the others.           *)
(***************************************************************************)
LowerChar(c) == IF c \in 65..90 THEN c + 32 ELSE c

Lower(name) == [i \in DOMAIN name |-> LowerChar(name[i])]

\* "FA", "fa", "C"
AppNames == {<<70, 65>>, <<102, 97>>, <<67>>}

(***************************************************************************)
(* state/schema.py: dataclasses                                            *)
(***************************************************************************)
ResearchPhase == {"init", "planning", "discovery", "deep_research", "reflection",
                  "pattern_extraction", "synthesis"}

SubQuery(q, p) == [query |-> q, purpose |-> p, executed |-> FALSE]

AppOpportunity(n, dev) ==
    [name |-> n, developer |-> dev, raw_research |-> <<>>, research_complete |-> FALSE]

ResearchScratchpad(eq, kf, gi, ic) ==
    [executed_queries |-> eq, key_findings |-> kf, gaps_identified |-> gi,
     iteration_count |-> ic]

EmptyScratchpad == ResearchScratchpad(<<>>, <<>>, <<>>, 0)

(***************************************************************************)
(* state/schema.py: reducers                                               *)
(***************************************************************************)
\* mutant of add_apps: names compared as written, not lower-cased
RECURSIVE add_apps_case_sensitive(_, _)
add_apps_case_sensitive(existing, new) ==
    IF new = <<>> THEN existing
    ELSE LET app == Head(new)
             existing_names == {existing[i].name : i \in DOMAIN existing}
         IN  IF app.name \notin existing_names
             THEN add_apps_case_sensitive(Append(existing, app), Tail(new))
             ELSE add_apps_case_sensitive(existing, Tail(new))

\* mutant of add_apps: a name already held has its record replaced
RECURSIVE add_apps_overwriting(_, _)
add_apps_overwriting(existing, new) ==
    IF new = <<>> THEN existing
    ELSE LET app == Head(new)
             held == {i \in DOMAIN existing : Lower(existing[i].name) = Lower(app.name)}
         IN  IF held = {}
             THEN add_apps_overwriting(Append(existing, app), Tail(new))
             ELSE add_apps_overwriting(
                      [i \in DOMAIN existing |-> IF i \in held THEN app ELSE existing[i]],
                      Tail(new))

RECURSIVE add_apps(_, _)
add_apps(existing, new) ==
    IF new = <<>> THEN existing
    ELSE LET app == Head(new)
             existing_names == {Lower(existing[i].name) : i \in DOMAIN existing}
         IN  IF Lower(app.name) \notin existing_names
             THEN add_apps(Append(existing, app), Tail(new))
             ELSE add_apps(existing, Tail(new))

\* [x for x in new if x not in existing]
NotIn(new, existing) == SelectSeq(new, LAMBDA x : ~Contains(existing, x))

\* mutant of Max: a larger count on the new side advances the count by one
MaxStepping(a, b) == IF a >= b THEN a ELSE a + 1

Max(a, b) == IF a >= b THEN a ELSE b

\* mutant of merge_scratchpad: the new lists are appended unfiltered
merge_scratchpad_appending(existing, new) ==
    ResearchScratchpad(
        existing.executed_queries \o new.executed_queries,
        existing.key_findings \o new.key_findings,
        IF new.gaps_identified # <<>> THEN new.gaps_identified ELSE existing.gaps_identified,
        Max(existing.iteration_count, new.iteration_count))

merge_scratchpad(existing, new) ==
    ResearchScratchpad(
        existing.executed_queries \o NotIn(new.executed_queries, existing.executed_queries),
        existing.key_findings \o NotIn(new.key_findings, existing.key_findings),
        IF new.gaps_identified # <<>> THEN new.gaps_identified ELSE existing.gaps_identified,
        Max(existing.iteration_count, new.iteration_count))

\* langgraph's add_messages on messages with fresh ids: the update is appended
add_messages(left, right) == left \o right

\* operator.add on the errors list
add_errors(left, right) == left \o right

(***************************************************************************)
(* Messages.  owner: the candidate index (deep research) or the iteration  *)
(* count (discovery) the message was produced for; title: the name before  *)
(* the separator in a "Title:" line of a tool result, NoTitle without one. *)
(***************************************************************************)
NoTitle == <<>>

Msg(t, n, o, ti) == [type |-> t, tool_calls |-> n, owner |-> o, title |-> ti]

SystemMessage(o) == Msg("system", 0, o, NoTitle)
HumanMessage(o) == Msg("human", 0, o, NoTitle)
AIMessage(n, o) == Msg("ai", n, o, NoTitle)
ToolMessage(o, ti) == Msg("tool", 0, o, ti)

\* hasattr(last_message, "tool_calls") and last_message.tool_calls
RequestsTools(msgs) == msgs # <<>> /\ Last(msgs).tool_calls > 0

(***************************************************************************)
(* workflow/helpers.py: generate_default_queries.  A query text is the     *)
(* pair of its template and the category formatted into it.                *)
(***************************************************************************)
DefaultTemplates ==
    <<[template |-> "{c} apps trending reddit", purpose |-> "Find viral apps from Reddit"],
      [template |-> "viral {c} app TikTok", purpose |-> "Find TikTok viral apps"],
      [template |-> "indie {c} app success story", purpose |-> "Find indie success stories"],
      [template |-> "best {c} apps comparison", purpose |-> "Understand the landscape"],
      [template |-> "Product Hunt {c} launches", purpose |-> "Find new launches"],
      [template |-> "{c} app complaints reddit", purpose |-> "Find user pain points"]>>

MaxDefaultQueries == 12

QueriesFor(category) ==
    [t \in DOMAIN DefaultTemplates |->
        SubQuery(<<DefaultTemplates[t].template, category>>, DefaultTemplates[t].purpose)]

generate_default_queries(cats) ==
    Take(Flatten([c \in DOMAIN cats |-> QueriesFor(cats[c])]), MaxDefaultQueries)

(***************************************************************************)
(* workflow/helpers.py: parsers.  A terminal text is modelled by what      *)
(* extract_json_from_response finds in it: json = "none" (no valid JSON),  *)
(* "list" or "dict", and the items or fields of that value.                *)
(***************************************************************************)
\* a planner text: items are the "query" values of the list's entries
PlannerText(j, its) == [json |-> j, items |-> its]

parse_subqueries_from_response(content) ==
    IF content.json # "list" \/ content.items = <<>> THEN <<>>
    ELSE [i \in DOMAIN content.items |-> SubQuery(content.items[i], "llm")]

Cats == {"health", "games", "finance"}

LlmQueries == {<<"llm", "q1">>}

PlannerTexts ==
    {PlannerText("none", <<>>), PlannerText("dict", <<>>), PlannerText("list", <<>>)}
    \cup {PlannerText("list", its) : its \in SeqsUpTo(LlmQueries, 2) \ {<<>>}}

(***************************************************************************)
(* workflow/routing.py                                                     *)
(***************************************************************************)
check_discovery_tools(msgs) ==
    IF msgs = <<>> THEN "deep_research"
    ELSE IF RequestsTools(msgs) THEN "discovery_tools" ELSE "deep_research"

check_deep_research_tools(msgs) ==
    IF msgs = <<>> THEN "check_more_apps"
    ELSE IF RequestsTools(msgs) THEN "deep_research_tools" ELSE "check_more_apps"

\* mutant of check_more_apps_to_research: the cursor is compared with <=
check_more_apps_to_research_inclusive(apps, idx, phase) ==
    IF phase = "reflection" THEN "reflection"
    ELSE IF idx <= Len(apps) THEN "deep_research" ELSE "reflection"

check_more_apps_to_research(apps, idx, phase) ==
    IF phase = "reflection" THEN "reflection"
    ELSE IF idx < Len(apps) THEN "deep_research" ELSE "reflection"

\* mutant of check_research_sufficient: sufficient research goes to Synthesis
check_research_sufficient_skipping(suff, phase) ==
    IF phase = "discovery" THEN "discovery"
    ELSE IF suff \/ phase = "pattern_extraction" THEN "synthesis"
    ELSE "pattern_extraction"

check_research_sufficient(suff, phase) ==
    IF phase = "discovery" THEN "discovery"
    ELSE IF suff \/ phase = "pattern_extraction" THEN "pattern_extraction"
    ELSE "pattern_extraction"

\* no delta in flight, no text being parsed, nothing parsed
NoDelta == "<no delta>"
NoText == "<no text>"
NoResult == "<no result>"

(***************************************************************************)
(* state/schema.py: create_init_state                                      *)
(***************************************************************************)
InitState(cats) ==
    /\ node = "init"
    /\ categories = cats
    /\ current_phase = "init"
    /\ research_plan = <<>>
    /\ discovery_messages = <<>>
    /\ deep_research_messages = <<>>
    /\ discovered_apps = <<>>
    /\ current_app_index = 0
    /\ scratchpad = EmptyScratchpad
    /\ is_research_sufficient = FALSE
    /\ reflection_feedback = ""
    /\ apps_needing_more_research = <<>>
    /\ cross_app_patterns = <<>>
    /\ gaps = <<>>
    /\ output_to_user = ""
    /\ json_output = "empty"
    /\ errors = <<>>
    /\ reflection_log = <<>>
    /\ research_log = <<>>
    /\ delta = NoDelta
    /\ response_text = NoText
    /\ parsed = NoResult

\* the category lists of the full runs
RunCategories == {<<"health", "games", "finance">>}

Init == \E cats \in RunCategories : InitState(cats)

(***************************************************************************)
(* workflow/nodes.py: init_node, then the edge init -> planning            *)
(***************************************************************************)
init_node ==
    /\ node = "init"
    /\ current_phase' = "planning"
    /\ scratchpad' = merge_scratchpad(scratchpad, EmptyScratchpad)
    /\ node' = "planning"
    /\ UNCHANGED <<unit_vars, research_log, categories, research_plan, discovery_messages, deep_research_messages,
                   discovered_apps, current_app_index, is_research_sufficient,
                   reflection_feedback, apps_needing_more_research, cross_app_patterns,
                   gaps, output_to_user, json_output, errors, reflection_log>>

(***************************************************************************)
(* workflow/nodes.py: planning_node, then the edge planning -> discovery   *)
(***************************************************************************)
\* the plan of the try branch: the parsed queries, the defaults when none parse
PlanFromText(content, cats) ==
    LET queries == parse_subqueries_from_response(content)
    IN  IF queries = <<>> THEN generate_default_queries(cats) ELSE queries

\* mutant of AfterPlanning: the edge skips Discovery
AfterPlanningSkipping == "deep_research"

\* workflow.add_edge("planning", "discovery")
AfterPlanning == "discovery"

planning_node ==
    /\ node = "planning"
    /\ \/ \E content \in PlannerTexts :
             /\ research_plan' = PlanFromText(content, categories)
             /\ errors' = errors
       \/ \* plan_research raises
          /\ research_plan' = generate_default_queries(categories)
          /\ errors' = add_errors(errors, <<"Planning error">>)
    /\ current_phase' = "discovery"
    /\ node' = AfterPlanning
    /\ UNCHANGED <<unit_vars, research_log, categories, discovery_messages, deep_research_messages,
                   discovered_apps, current_app_index, scratchpad, is_research_sufficient,
                   reflection_feedback, apps_needing_more_research, cross_app_patterns,
                   gaps, output_to_user, json_output, reflection_log>>

(***************************************************************************)
(* agents/base.py: Agent.run.  result.messages is the whole new            *)
(* conversation on a first call and the response alone on a continuation.  *)
(***************************************************************************)
AgentRunMessages(existing, response) ==
    IF Len(existing) = 0
    THEN <<SystemMessage(response.owner), HumanMessage(response.owner), response>>
    ELSE <<response>>

\* the LLM stops requesting tools on a conversation longer than the bound
MayRequestTools(existing, response) ==
    Len(existing) + Len(AgentRunMessages(existing, response)) <= MaxMsgs

(***************************************************************************)
(* workflow/helpers.py: parse_apps_from_response.  names are the "name"    *)
(* values of the entries; a single object is treated as a list of one.     *)
(***************************************************************************)
DiscoveryText(j, ns) == [json |-> j, names |-> ns]

parse_apps_from_response(content) ==
    IF content.json = "none" \/ content.names = <<>> THEN <<>>
    ELSE [i \in DOMAIN content.names |-> AppOpportunity(content.names[i], "d0")]

DiscoveryTexts ==
    {DiscoveryText("none", <<>>)}
    \cup {DiscoveryText("list", ns) : ns \in SeqsUpTo(AppNames, MaxNewApps)}
    \cup {DiscoveryText("dict", <<n>>) : n \in AppNames}

(***************************************************************************)
(* workflow/nodes.py: extract_apps_from_messages                           *)
(***************************************************************************)
MaxExtracted == 15

RECURSIVE ExtractTitles(_, _)
ExtractTitles(msgs, found) ==
    IF msgs = <<>> THEN found
    ELSE LET potential_name == Head(msgs).title
         IN  IF potential_name # NoTitle /\ ~Contains(found, potential_name)
             THEN ExtractTitles(Tail(msgs), Append(found, potential_name))
             ELSE ExtractTitles(Tail(msgs), found)

extract_apps_from_messages(msgs) ==
    LET found == ExtractTitles(msgs, <<>>)
    IN  Take([i \in DOMAIN found |-> AppOpportunity(found[i], "")], MaxExtracted)

(***************************************************************************)
(* workflow/nodes.py: discovery_node, then check_discovery_tools           *)
(***************************************************************************)
\* the candidates of a terminal response: parsed, else taken from the tool results
NewApps(content, msgs) ==
    LET new_apps == parse_apps_from_response(content)
    IN  IF new_apps = <<>> /\ msgs # <<>> THEN extract_apps_from_messages(msgs)
        ELSE new_apps

UnexecutedQueries(plan) ==
    LET pending == SelectSeq(plan, LAMBDA q : ~q.executed)
    IN  [i \in DOMAIN pending |-> pending[i].query]

\* mutant of DiscoveryIteration: Discovery leaves the count alone
DiscoveryIterationKept(ic) == ic

DiscoveryIteration(ic) == ic + 1

DiscoveryScratchpad(sp, plan) ==
    ResearchScratchpad(sp.executed_queries \o UnexecutedQueries(plan), sp.key_findings,
                       sp.gaps_identified, DiscoveryIteration(sp.iteration_count))

discovery_node ==
    /\ node = "discovery"
    /\ \/ \* the LLM call raises: nothing catches it, graph.ainvoke raises
          /\ node' = "ABORTED"
          /\ UNCHANGED <<discovery_messages, current_phase, discovered_apps, scratchpad>>
       \/ \* the response requests tools
          LET response == AIMessage(1, scratchpad.iteration_count)
          IN  /\ MayRequestTools(discovery_messages, response)
              /\ discovery_messages' =
                     add_messages(discovery_messages,
                                  AgentRunMessages(discovery_messages, response))
              /\ current_phase' = "discovery"
              /\ node' = check_discovery_tools(discovery_messages')
              /\ UNCHANGED <<discovered_apps, scratchpad>>
       \/ \* the response is a terminal text
          \E content \in DiscoveryTexts :
              LET response == AIMessage(0, scratchpad.iteration_count)
              IN  /\ discovered_apps' =
                         add_apps(discovered_apps, NewApps(content, discovery_messages))
                  /\ scratchpad' =
                         merge_scratchpad(scratchpad,
                                          DiscoveryScratchpad(scratchpad, research_plan))
                  /\ discovery_messages' =
                         add_messages(discovery_messages,
                                      AgentRunMessages(discovery_messages, response))
                  /\ current_phase' = "deep_research"
                  /\ node' = check_discovery_tools(discovery_messages')
    /\ UNCHANGED <<unit_vars, research_log, categories, research_plan, deep_research_messages, current_app_index,
                   is_research_sufficient, reflection_feedback, apps_needing_more_research,
                   cross_app_patterns, gaps, output_to_user, json_output, errors,
                   reflection_log>>

(***************************************************************************)
(* workflow/graph.py: discovery_tools_node (ToolNode answers the tool      *)
(* calls of the last message), then the edge discovery_tools -> discovery  *)
(***************************************************************************)
\* the "Title:" names a tool result may carry: none, "fa"
ToolTitles == {NoTitle, <<102, 97>>}

ToolResults(msgs, title) ==
    [i \in 1..Last(msgs).tool_calls |-> ToolMessage(Last(msgs).owner, title)]

discovery_tools_node ==
    /\ node = "discovery_tools"
    /\ IF discovery_messages = <<>>
       THEN discovery_messages' = add_messages(discovery_messages, <<>>)
       ELSE \E title \in ToolTitles :
                discovery_messages' =
                    add_messages(discovery_messages, ToolResults(discovery_messages, title))
    /\ node' = "discovery"
    /\ UNCHANGED <<unit_vars, research_log, categories, current_phase, research_plan, deep_research_messages,
                   discovered_apps, current_app_index, scratchpad, is_research_sufficient,
                   reflection_feedback, apps_needing_more_research, cross_app_patterns,
                   gaps, output_to_user, json_output, errors, reflection_log>>

(***************************************************************************)
(* workflow/helpers.py: update_app_with_research.  A research text is its  *)
(* JSON shape, whether the object has any key, and its "developer" value   *)
(* (NoValue when the key is absent); text identifies the raw text.         *)
(***************************************************************************)
NoValue == "<absent>"

ResearchText(j, nonempty, dev, t) ==
    [json |-> j, nonempty |-> nonempty, developer |-> dev, text |-> t]

\* mutant of update_app_with_research: the candidate is marked complete always
update_app_with_research_completing(app, content) ==
    IF content.json # "dict" \/ ~content.nonempty
    THEN [app EXCEPT !.raw_research = Append(@, content.text),
                     !.research_complete = TRUE]
    ELSE [app EXCEPT !.developer = IF content.developer = NoValue THEN @
                                   ELSE content.developer,
                     !.research_complete = TRUE]

update_app_with_research(app, content) ==
    IF content.json # "dict" \/ ~content.nonempty
    THEN [app EXCEPT !.raw_research = Append(@, content.text)]
    ELSE [app EXCEPT !.developer = IF content.developer = NoValue THEN @
                                   ELSE content.developer,
                     !.research_complete = TRUE]

ResearchTexts ==
    {ResearchText("none", FALSE, NoValue, "prose"),
     ResearchText("dict", TRUE, NoValue, "{revenue}"),
     ResearchText("dict", TRUE, "d1", "{developer}")}

(***************************************************************************)
(* workflow/nodes.py: deep_research_node, then check_deep_research_tools   *)
(***************************************************************************)
\* mutant of AllResearched: the last candidate is taken for researched
AllResearchedEarly(idx, apps) == idx + 1 >= Len(apps)

AllResearched(idx, apps) == idx >= Len(apps)

\* mutant of NextAppIndex: the cursor stays on the candidate
NextAppIndexStaying(idx) == idx

\* mutant of NextAppIndex: the cursor skips a candidate
NextAppIndexSkipping(idx) == idx + 2

NextAppIndex(idx) == idx + 1

\* the value the terminal branch returns for deep_research_messages
ClearedMessages == <<>>

deep_research_node ==
    /\ node = "deep_research"
    /\ IF AllResearched(current_app_index, discovered_apps)
       THEN /\ current_phase' = "reflection"
            /\ deep_research_messages' = add_messages(deep_research_messages, ClearedMessages)
            /\ node' = check_deep_research_tools(deep_research_messages')
            /\ UNCHANGED <<discovered_apps, current_app_index, research_log>>
       ELSE \/ \* the LLM call raises: nothing catches it, graph.ainvoke raises
               /\ node' = "ABORTED"
               /\ UNCHANGED <<current_phase, deep_research_messages, discovered_apps,
                              current_app_index, research_log>>
            \/ \* the response requests tools
               LET response == AIMessage(1, current_app_index)
               IN  /\ MayRequestTools(deep_research_messages, response)
                   /\ deep_research_messages' =
                          add_messages(deep_research_messages,
                                       AgentRunMessages(deep_research_messages, response))
                   /\ current_phase' = "deep_research"
                   /\ node' = check_deep_research_tools(deep_research_messages')
                   /\ UNCHANGED <<discovered_apps, current_app_index, research_log>>
            \/ \* the response is a terminal text; the candidate is updated in place
               \E content \in ResearchTexts :
                   LET current_app == discovered_apps[current_app_index + 1]
                       updated_app == update_app_with_research(current_app, content)
                       updated_apps == [discovered_apps EXCEPT
                                            ![current_app_index + 1] = updated_app]
                   IN  /\ discovered_apps' = add_apps(updated_apps, updated_apps)
                       /\ current_app_index' = NextAppIndex(current_app_index)
                       /\ research_log' = Append(research_log, current_app_index)
                       /\ deep_research_messages' =
                              add_messages(deep_research_messages, ClearedMessages)
                       /\ current_phase' = "deep_research"
                       /\ node' = check_deep_research_tools(deep_research_messages')
    /\ UNCHANGED <<unit_vars, categories, research_plan, discovery_messages, scratchpad,
                   is_research_sufficient, reflection_feedback, apps_needing_more_research,
                   cross_app_patterns, gaps, output_to_user, json_output, errors,
                   reflection_log>>

(***************************************************************************)
(* workflow/graph.py: deep_research_tools_node, then the edge              *)
(* deep_research_tools -> deep_research                                    *)
(***************************************************************************)
\* mutant of AfterDeepResearchTools: the edge leaves the worker behind
AfterDeepResearchToolsSkipping == "check_more_apps"

\* workflow.add_edge("deep_research_tools", "deep_research")
AfterDeepResearchTools == "deep_research"

deep_research_tools_node ==
    /\ node = "deep_research_tools"
    /\ IF deep_research_messages = <<>>
       THEN deep_research_messages' = add_messages(deep_research_messages, <<>>)
       ELSE deep_research_messages' =
                add_messages(deep_research_messages,
                             ToolResults(deep_research_messages, NoTitle))
    /\ node' = AfterDeepResearchTools
    /\ UNCHANGED <<unit_vars, research_log, categories, current_phase, research_plan, discovery_messages,
                   discovered_apps, current_app_index, scratchpad, is_research_sufficient,
                   reflection_feedback, apps_needing_more_research, cross_app_patterns,
                   gaps, output_to_user, json_output, errors, reflection_log>>

(***************************************************************************)
(* workflow/graph.py: the virtual node check_more_apps (an empty delta),   *)
(* then check_more_apps_to_research                                        *)
(***************************************************************************)
check_more_apps ==
    /\ node = "check_more_apps"
    /\ node' = check_more_apps_to_research(discovered_apps, current_app_index,
                                           current_phase)
    /\ UNCHANGED <<unit_vars, research_log, categories, current_phase, research_plan, discovery_messages,
                   deep_research_messages, discovered_apps, current_app_index, scratchpad,
                   is_research_sufficient, reflection_feedback,
                   apps_needing_more_research, cross_app_patterns, gaps, output_to_user,
                   json_output, errors, reflection_log>>

(***************************************************************************)
(* workflow/helpers.py: parse_reflection_response                          *)
(***************************************************************************)
ReflectionText(j, suff, needs, qs) ==
    [json |-> j, is_sufficient |-> suff, apps_needing_more_research |-> needs,
     suggested_queries |-> qs]

Evaluation(suff, needs, qs, why) ==
    [is_sufficient |-> suff, apps_needing_more_research |-> needs,
     suggested_queries |-> qs, reasoning |-> why]

parse_reflection_response(content) ==
    IF content.json # "dict"
    THEN Evaluation(FALSE, <<>>, <<>>, "Failed to parse reflection response")
    ELSE Evaluation(content.is_sufficient, content.apps_needing_more_research,
                    content.suggested_queries, "reasoning")

ReflectionTexts ==
    {ReflectionText("none", FALSE, <<>>, <<>>),
     ReflectionText("dict", TRUE, <<>>, <<>>),
     ReflectionText("dict", FALSE, <<>>, <<>>),
     ReflectionText("dict", FALSE, << <<67>> >>, << <<"llm", "q1">>, <<"llm", "q1">> >>)}

(***************************************************************************)
(* workflow/nodes.py: reflection_node, then check_research_sufficient      *)
(***************************************************************************)
MaxIterations == 3

\* mutant of NeedsMoreDiscovery: the iteration cap is not checked
NeedsMoreDiscoveryUncapped(evaluation, sp) == ~evaluation.is_sufficient

\* "not is_sufficient and scratchpad.iteration_count < 3"
NeedsMoreDiscovery(evaluation, sp) ==
    ~evaluation.is_sufficient /\ sp.iteration_count < MaxIterations

ReflectionIteration(ic) == ic + 1

ReflectionScratchpad(sp, apps_needing_research) ==
    ResearchScratchpad(sp.executed_queries, sp.key_findings, apps_needing_research,
                       ReflectionIteration(sp.iteration_count))

FillGapQueries(suggested_queries) ==
    [i \in DOMAIN suggested_queries |-> SubQuery(suggested_queries[i], "fill gap")]

\* what the response was: a raised error, or the verdict read from the text
Verdict(content) ==
    IF content.json # "dict" THEN "unparseable"
    ELSE IF content.is_sufficient THEN "sufficient" ELSE "insufficient"

\* needs: the apps_needing_more_research of the evaluation (none when it raised)
LogEntry(reply, needs, ic, route) ==
    [reply |-> reply, needs |-> needs, iteration_count |-> ic, route |-> route]

\* mutant of SufficientOnExit: the evaluation's own verdict is stored
SufficientOnExitAsJudged(evaluation) == evaluation.is_sufficient

\* "is_research_sufficient": True of the return that leaves for pattern extraction
SufficientOnExit(evaluation) == TRUE

reflection_node ==
    /\ node = "reflection"
    /\ \/ \E content \in ReflectionTexts :
             LET evaluation == parse_reflection_response(content)
             IN  /\ IF NeedsMoreDiscovery(evaluation, scratchpad)
                    THEN /\ is_research_sufficient' = FALSE
                         /\ reflection_feedback' = evaluation.reasoning
                         /\ apps_needing_more_research' =
                                evaluation.apps_needing_more_research
                         /\ research_plan' = FillGapQueries(evaluation.suggested_queries)
                         /\ scratchpad' =
                                merge_scratchpad(scratchpad,
                                    ReflectionScratchpad(scratchpad,
                                        evaluation.apps_needing_more_research))
                         /\ current_phase' = "discovery"
                         /\ discovery_messages' =
                                add_messages(discovery_messages, ClearedMessages)
                    ELSE /\ is_research_sufficient' = SufficientOnExit(evaluation)
                         /\ reflection_feedback' = evaluation.reasoning
                         /\ current_phase' = "pattern_extraction"
                         /\ UNCHANGED <<apps_needing_more_research, research_plan,
                                        scratchpad, discovery_messages>>
                 /\ errors' = errors
                 /\ node' = check_research_sufficient(is_research_sufficient',
                                                      current_phase')
                 /\ reflection_log' =
                        Append(reflection_log,
                               LogEntry(Verdict(content),
                                        evaluation.apps_needing_more_research,
                                        scratchpad.iteration_count, node'))
       \/ \* evaluate raises
          /\ is_research_sufficient' = TRUE
          /\ reflection_feedback' = "Error during reflection"
          /\ errors' = add_errors(errors, <<"Reflection error">>)
          /\ current_phase' = "pattern_extraction"
          /\ node' = check_research_sufficient(is_research_sufficient', current_phase')
          /\ reflection_log' =
                 Append(reflection_log,
                        LogEntry("raise", <<>>, scratchpad.iteration_count, node'))
          /\ UNCHANGED <<apps_needing_more_research, research_plan, scratchpad,
                         discovery_messages>>
    /\ UNCHANGED <<unit_vars, research_log, categories, deep_research_messages, discovered_apps, current_app_index,
                   cross_app_patterns, gaps, output_to_user, json_output>>

(***************************************************************************)
(* workflow/helpers.py: parse_patterns_response                            *)
(***************************************************************************)
PatternText(j, ps, gs) == [json |-> j, patterns |-> ps, gaps |-> gs]

parse_patterns_response(content) ==
    IF content.json # "dict" THEN [patterns |-> <<>>, gaps |-> <<>>]
    ELSE [patterns |-> content.patterns, gaps |-> content.gaps]

PatternTexts ==
    {PatternText("none", <<>>, <<>>), PatternText("dict", <<"pattern">>, <<"gap">>)}

(***************************************************************************)
(* workflow/nodes.py: pattern_extraction_node, then the edge               *)
(* pattern_extraction -> synthesis                                         *)
(***************************************************************************)
\* mutant of AfterPatternExtraction: the edge skips Synthesis
AfterPatternExtractionSkipping == "END"

\* workflow.add_edge("pattern_extraction", "synthesis")
AfterPatternExtraction == "synthesis"

pattern_extraction_node ==
    /\ node = "pattern_extraction"
    /\ \/ \E content \in PatternTexts :
             /\ cross_app_patterns' = parse_patterns_response(content).patterns
             /\ gaps' = parse_patterns_response(content).gaps
             /\ errors' = errors
       \/ \* extract_patterns raises
          /\ cross_app_patterns' = <<>>
          /\ gaps' = <<>>
          /\ errors' = add_errors(errors, <<"Pattern extraction error">>)
    /\ current_phase' = "synthesis"
    /\ node' = AfterPatternExtraction
    /\ UNCHANGED <<unit_vars, research_log, categories, research_plan, discovery_messages, deep_research_messages,
                   discovered_apps, current_app_index, scratchpad, is_research_sufficient,
                   reflection_feedback, apps_needing_more_research, output_to_user,
                   json_output, reflection_log>>

(***************************************************************************)
(* workflow/nodes.py: synthesis_node, then the edge synthesis -> END       *)
(***************************************************************************)
synthesis_node ==
    /\ node = "synthesis"
    /\ \/ /\ output_to_user' = "report"
          /\ json_output' = "built"
          /\ current_phase' = "synthesis"
          /\ errors' = errors
       \/ \* synthesize raises
          /\ output_to_user' = "Error generating report"
          /\ json_output' = "empty"
          /\ errors' = add_errors(errors, <<"Synthesis error">>)
          /\ UNCHANGED current_phase
    /\ node' = "END"
    /\ UNCHANGED <<unit_vars, research_log, categories, research_plan, discovery_messages, deep_research_messages,
                   discovered_apps, current_app_index, scratchpad, is_research_sufficient,
                   reflection_feedback, apps_needing_more_research, cross_app_patterns,
                   gaps, reflection_log>>

(***************************************************************************)
(* workflow/graph.py: create_deep_research_graph, run_workflow             *)
(***************************************************************************)
Next ==
    \/ init_node
    \/ planning_node
    \/ discovery_node
    \/ discovery_tools_node
    \/ deep_research_node
    \/ deep_research_tools_node
    \/ check_more_apps
    \/ reflection_node
    \/ pattern_extraction_node
    \/ synthesis_node

Spec == Init /\ [][Next]_vars

(***************************************************************************)
(* Planning alone, over every non-empty category list up to MaxCats        *)
(***************************************************************************)
PlanInit == \E cats \in SeqsUpTo(Cats, MaxCats) \ {<<>>} : InitState(cats)

PlanNext == init_node \/ planning_node

PlanSpec == PlanInit /\ [][PlanNext]_vars

(***************************************************************************)
(* The reducers alone: LangGraph merges one node delta into the state, key *)
(* by key, through the reducer annotated on the key (state/schema.py).  A  *)
(* delta names some of the keys; a key it does not name is left alone,     *)
(* which for these three reducers is what merging the empty value does.    *)
(***************************************************************************)
\* longest executed_queries or key_findings list of a reducer input
MaxList == 2

Delta(apps, sp, errs) == [discovered_apps |-> apps, scratchpad |-> sp, errors |-> errs]

QueryLists == SeqsUpTo({<<"llm", "q1">>, <<"llm", "q2">>}, MaxList)

FindingLists == SeqsUpTo({"f1"}, MaxList)

Scratchpads ==
    {ResearchScratchpad(eq, kf, gi, ic) :
        eq \in QueryLists, kf \in FindingLists, gi \in {<<>>, << <<67>> >>}, ic \in {0, 2}}

\* candidate lists a state may hold: add_apps keeps them unique
StateApps ==
    {<<>>, <<AppOpportunity(<<70, 65>>, "d0")>>,
     <<AppOpportunity(<<67>>, "d0"), AppOpportunity(<<102, 97>>, "d1")>>}

\* candidate lists a delta may carry
DeltaApps ==
    {<<AppOpportunity(<<102, 97>>, "d0")>>,
     <<AppOpportunity(<<70, 65>>, "d0"), AppOpportunity(<<102, 97>>, "d0")>>,
     <<AppOpportunity(<<67>>, "d1"), AppOpportunity(<<67>>, "d0")>>}

Deltas ==
    {Delta(apps, EmptyScratchpad, <<>>) : apps \in DeltaApps}
    \cup {Delta(<<>>, sp, <<>>) : sp \in Scratchpads}
    \cup {Delta(<<>>, EmptyScratchpad, <<"Planning error">>)}
    \cup {Delta(apps, ResearchScratchpad(<< <<"llm", "q1">> >>, <<"f1">>, <<>>, 1),
                <<"Reflection error">>) : apps \in DeltaApps}

\* deltas merged after the delta in flight
LaterDeltas ==
    {Delta(<<AppOpportunity(<<102, 97>>, "d1")>>,
           ResearchScratchpad(<< <<"llm", "q2">>, <<"llm", "q1">> >>, <<"f1">>, <<>>, 2),
           <<>>),
     Delta(<<AppOpportunity(<<67>>, "d1"), AppOpportunity(<<70, 65>>, "d1")>>,
           ResearchScratchpad(<< <<"llm", "q1">>, <<"llm", "q1">> >>, <<"f2", "f1">>,
                              << <<70, 65>> >>, 1),
           <<>>),
     Delta(<<>>, ResearchScratchpad(<<>>, <<"f2", "f2">>, << <<67>> >>, 3), <<>>)}

ReducerInit ==
    /\ node = "reducers"
    /\ discovered_apps \in StateApps
    /\ scratchpad \in Scratchpads
    /\ errors = <<>>
    /\ delta \in Deltas
    /\ categories = <<>>
    /\ current_phase = "init"
    /\ research_plan = <<>>
    /\ discovery_messages = <<>>
    /\ deep_research_messages = <<>>
    /\ current_app_index = 0
    /\ is_research_sufficient = FALSE
    /\ reflection_feedback = ""
    /\ apps_needing_more_research = <<>>
    /\ cross_app_patterns = <<>>
    /\ gaps = <<>>
    /\ output_to_user = ""
    /\ json_output = "empty"
    /\ reflection_log = <<>>
    /\ research_log = <<>>
    /\ response_text = NoText
    /\ parsed = NoResult

\* the delta is merged into the state
apply_delta ==
    /\ node = "reducers"
    /\ discovered_apps' = add_apps(discovered_apps, delta.discovered_apps)
    /\ scratchpad' = merge_scratchpad(scratchpad, delta.scratchpad)
    /\ errors' = add_errors(errors, delta.errors)
    /\ node' = "reduced"
    /\ UNCHANGED <<delta, response_text, parsed, research_log, categories, current_phase,
                   research_plan,
                   discovery_messages, deep_research_messages, current_app_index,
                   is_research_sufficient, reflection_feedback,
                   apps_needing_more_research, cross_app_patterns, gaps, output_to_user,
                   json_output, reflection_log>>

ReducerNext == apply_delta

ReducerSpec == ReducerInit /\ [][ReducerNext]_vars

(***************************************************************************)
(* The parsers alone (workflow/helpers.py).  A raw text is modelled by     *)
(* what json.loads does on each piece extract_json_from_response tries:    *)
(* block (the first fenced block), whole (the whole text), array and       *)
(* object (the bracket and brace patterns) and cleaned (the fenced block   *)
(* with its trailing commas removed).  A piece is "absent" when its        *)
(* pattern does not match, "error" when json.loads raises JSONDecodeError, *)
(* and else the kind of the value json.loads returns.                      *)
(***************************************************************************)
RawText(b, w, a, o, c) == [block |-> b, whole |-> w, array |-> a, object |-> o, cleaned |-> c]

\* json.loads returned a value for the piece
Loads(piece) == piece \notin {"absent", "error"}

\* mutant of extract_json_from_response: the whole-text attempt is not guarded
extract_json_from_response_unguarded(text) ==
    IF Loads(text.block) THEN text.block
    ELSE IF text.whole = "error" THEN "raise"
    ELSE text.whole

extract_json_from_response(text) ==
    IF Loads(text.block) THEN text.block
    ELSE IF Loads(text.whole) THEN text.whole
    ELSE IF Loads(text.array) THEN text.array
    ELSE IF Loads(text.object) THEN text.object
    ELSE IF text.block # "absent" /\ Loads(text.cleaned) THEN text.cleaned
    ELSE "none"

RawTexts ==
    {RawText("absent", w, a, o, "absent") :
        w \in {"error", "list", "dict"}, a \in {"absent", "error", "list"},
        o \in {"absent", "error", "dict"}}
    \cup {RawText(b, w, a, o, c) :
            b \in {"error", "list", "dict"}, w \in {"error", "list", "dict"},
            a \in {"absent", "error", "list"}, o \in {"absent", "error", "dict"},
            c \in {"error", "list", "dict"}}

\* the candidate update_app_with_research is given
ParsedApp == AppOpportunity(<<67>>, "d0")

\* what each caller returns for the text; the values of a list or an object
\* the text holds are fixed
Parsed(text) ==
    LET data == extract_json_from_response(text)
    IN  [data |-> data,
         subqueries |->
             parse_subqueries_from_response(PlannerText(data, << <<"llm", "q1">> >>)),
         apps |-> parse_apps_from_response(DiscoveryText(data, << <<67>> >>)),
         app |-> update_app_with_research(ParsedApp,
                                          ResearchText(data, TRUE, "d1", "raw")),
         evaluation |->
             parse_reflection_response(ReflectionText(data, TRUE, <<>>, <<>>)),
         patterns |-> parse_patterns_response(PatternText(data, <<"pattern">>, <<"gap">>))]

ParserInit ==
    /\ node = "parsers"
    /\ response_text \in RawTexts
    /\ parsed = NoResult
    /\ delta = NoDelta
    /\ categories = <<>>
    /\ current_phase = "init"
    /\ research_plan = <<>>
    /\ discovery_messages = <<>>
    /\ deep_research_messages = <<>>
    /\ discovered_apps = <<>>
    /\ current_app_index = 0
    /\ scratchpad = EmptyScratchpad
    /\ is_research_sufficient = FALSE
    /\ reflection_feedback = ""
    /\ apps_needing_more_research = <<>>
    /\ cross_app_patterns = <<>>
    /\ gaps = <<>>
    /\ output_to_user = ""
    /\ json_output = "empty"
    /\ errors = <<>>
    /\ reflection_log = <<>>
    /\ research_log = <<>>

\* the five parsers are called on the text
parse_response ==
    /\ node = "parsers"
    /\ parsed' = Parsed(response_text)
    /\ node' = "parsed"
    /\ UNCHANGED <<delta, response_text, research_log, categories, current_phase,
                   research_plan,
                   discovery_messages, deep_research_messages, discovered_apps,
                   current_app_index, scratchpad, is_research_sufficient,
                   reflection_feedback, apps_needing_more_research, cross_app_patterns,
                   gaps, output_to_user, json_output, errors, reflection_log>>

ParserNext == parse_response

ParserSpec == ParserInit /\ [][ParserNext]_vars

(***************************************************************************)
(* Properties                                                              *)
(***************************************************************************)
NoCaseDuplicates(apps) ==
    \A i, j \in DOMAIN apps :
        i # j => LET a == apps[i].name
                     b == apps[j].name
                 IN  ~(Len(a) = Len(b) /\ \A k \in DOMAIN a : LowerChar(a[k]) = LowerChar(b[k]))

FocusApp == <<70, 65>>
focusapp == <<102, 97>>

ScenarioB == <<AppOpportunity(FocusApp, "d0"), AppOpportunity(focusapp, "d0")>>

\* C1: the candidate list never holds two names that are equal when case is
\* ignored, and merging one more Discovery delta that itself holds "FA" and
\* "fa" keeps it so and adds at most one entry.
C1_CandidatesUnique ==
    /\ NoCaseDuplicates(discovered_apps)
    /\ NoCaseDuplicates(add_apps(discovered_apps, ScenarioB))
    /\ Len(add_apps(discovered_apps, ScenarioB)) <= Len(discovered_apps) + 1

\* two Discovery deltas have been merged and two candidates are held
C1_Witness ==
    /\ node = "deep_research"
    /\ scratchpad.iteration_count = 3
    /\ Len(discovered_apps) = 2
    /\ current_app_index = 1

\* C2: the cursor never exceeds the number of candidates and no step decreases it.
C2_CursorBoundedMonotone ==
    /\ [](current_app_index <= Len(discovered_apps))
    /\ [][current_app_index' >= current_app_index]_vars

\* the cursor has advanced over two candidates and Reflection is next
C2_Witness ==
    /\ node = "reflection"
    /\ current_app_index = 2
    /\ Len(discovered_apps) = 2

\* C3: iteration_count is at most 3, and a Reflection that ran with the count
\* at the cap routed to pattern extraction whatever the verdict was.
C3_IterationCap ==
    /\ scratchpad.iteration_count <= MaxIterations
    /\ \A i \in DOMAIN reflection_log :
           reflection_log[i].iteration_count >= MaxIterations
               => reflection_log[i].route = "pattern_extraction"

\* Reflection ran at the cap with an insufficient verdict
C3_Witness ==
    \E i \in DOMAIN reflection_log :
        /\ reflection_log[i].iteration_count = MaxIterations
        /\ reflection_log[i].reply = "insufficient"
        /\ reflection_log[i].route = "pattern_extraction"

\* C4: when every verdict is insufficient, Reflection has run three times by
\* the time pattern extraction starts: twice back to Discovery, then on.
C4_ThreeReflections ==
    (/\ node = "pattern_extraction"
     /\ \A i \in DOMAIN reflection_log : reflection_log[i].reply = "insufficient")
        => /\ Len(reflection_log) = 3
           /\ reflection_log[1].route = "discovery"
           /\ reflection_log[2].route = "discovery"
           /\ reflection_log[3].route = "pattern_extraction"

\* C5: a run is over only after Synthesis has executed and set the report.
C5_RunEndsAfterSynthesis ==
    node \in {"END", "ABORTED"} => (node = "END" /\ output_to_user # "")

\* C6: an LLM error never leaves a worker: the run is never aborted by one.
C6_WorkersCatchLlmErrors == node # "ABORTED"

\* C7: a Reflection whose LLM call failed or whose text gave no verdict
\* routed to pattern extraction.
C7_ReflectionFailsOpen ==
    \A i \in DOMAIN reflection_log :
        reflection_log[i].reply \in {"raise", "unparseable"}
            => reflection_log[i].route = "pattern_extraction"

IsFallbackPlan == research_plan = generate_default_queries(categories)

C9_PlanningHandsToDiscovery ==
    [][node = "planning" => (node' = "discovery" /\ current_phase' = "discovery")]_vars

\* Planning has run on an LLM call that raised, and Discovery is next
C9_Witness ==
    /\ node = "discovery"
    /\ current_phase = "discovery"
    /\ errors = <<"Planning error">>
    /\ discovery_messages = <<>>

\* C10: whenever the deep-research worker is about to run for a candidate,
\* the conversation holds only messages produced for that candidate (none at
\* its first invocation).
C10_FreshConversation ==
    (node = "deep_research" /\ current_app_index < Len(discovered_apps))
        => \A m \in DOMAIN deep_research_messages :
               deep_research_messages[m].owner = current_app_index

\* C11: whenever Discovery is about to run after Reflection sent the run
\* back, the discovery conversation holds no message of an earlier round: it
\* is empty at the round's first invocation, which is then a first call.
C11_DiscoveryConversationCleared ==
    (node = "discovery" /\ reflection_log # <<>>)
        => \A m \in DOMAIN discovery_messages :
               discovery_messages[m].owner = scratchpad.iteration_count

PhaseTable ==
    {<<"init", "planning">>, <<"planning", "discovery">>,
     <<"discovery", "discovery_tools">>, <<"discovery", "deep_research">>,
     <<"discovery_tools", "discovery">>,
     <<"deep_research", "deep_research_tools">>, <<"deep_research", "deep_research">>,
     <<"deep_research", "reflection">>,
     <<"deep_research_tools", "deep_research">>,
     <<"reflection", "discovery">>, <<"reflection", "pattern_extraction">>,
     <<"pattern_extraction", "synthesis">>, <<"synthesis", "END">>}

\* the successor the graph's edges choose after node n, read from the state
ChosenAfter(n) ==
    CASE n = "init" -> "planning"
      [] n = "planning" -> "discovery"
      [] n = "discovery" -> check_discovery_tools(discovery_messages)
      [] n = "discovery_tools" -> "discovery"
      [] n = "deep_research" -> check_deep_research_tools(deep_research_messages)
      [] n = "deep_research_tools" -> "deep_research"
      [] n = "check_more_apps" ->
             check_more_apps_to_research(discovered_apps, current_app_index, current_phase)
      [] n = "reflection" ->
             check_research_sufficient(is_research_sufficient, current_phase)
      [] n = "pattern_extraction" -> "synthesis"
      [] n = "synthesis" -> "END"

\* C12: every transition from one node to the next is a row of the phase
\* table (the DeepResearch rows to DeepResearch and to Reflection pass through
\* the pass-through check_more_apps, entered from DeepResearch only), and the
\* node chosen is the one the routing functions give for the state the step
\* produced.  A run that an LLM error ends takes no transition.
C12_TransitionsFollowPhaseTable ==
    [][node' # "ABORTED" =>
          /\ node' = "check_more_apps" => node = "deep_research"
          /\ (node = "check_more_apps" => <<"deep_research", node'>> \in PhaseTable)
          /\ (node # "check_more_apps" /\ node' # "check_more_apps")
                 => <<node, node'>> \in PhaseTable
          /\ \E n \in {node} : node' = ChosenAfter(n)']_vars

\* a run ended after Reflection had sent it back to Discovery, with tools
\* used in both worker phases
C12_Witness ==
    /\ node = "END"
    /\ reflection_log # <<>>
    /\ reflection_log[1].route = "discovery"
    /\ \E m \in DOMAIN discovery_messages : discovery_messages[m].type = "tool"
    /\ \E m \in DOMAIN deep_research_messages : deep_research_messages[m].type = "tool"

\* C13: once the cursor equals the number of candidates the next worker is
\* Reflection; a DeepResearch step at that cursor calls no LLM (no abort, no
\* message, no candidate or cursor change); Reflection runs once per round
\* (iteration_count, which counts the rounds and the Reflections that sent the
\* run back, is 2 * the earlier Reflections + 1 when Reflection is next) and
\* hands on to Discovery or PatternExtraction.
C13_OneReflectionAfterLastCandidate ==
    /\ [](node = "reflection"
             => scratchpad.iteration_count = 2 * Len(reflection_log) + 1)
    /\ [][/\ (node = "check_more_apps" /\ current_app_index = Len(discovered_apps))
                 => node' = "reflection"
          /\ (node = "deep_research" /\ current_app_index = Len(discovered_apps))
                 => /\ node' = "check_more_apps"
                    /\ UNCHANGED <<deep_research_messages, discovered_apps,
                                   current_app_index, errors>>
          /\ node = "reflection" => node' \in {"discovery", "pattern_extraction"}]_vars

\* the second round's last candidate has been researched and Reflection is next
C13_Witness ==
    /\ node = "reflection"
    /\ Len(reflection_log) = 1
    /\ current_app_index = Len(discovered_apps)
    /\ Len(discovered_apps) = 2
    /\ discovered_apps[2].research_complete

\* C14: a worker step that ends in a tool request changes the worker's own
\* conversation and nothing else (so not the candidates, the cursor, the
\* scratchpad, the plan or the phase), and the tool step that follows changes
\* that conversation alone and hands back to the same worker.
C14_ToolRequestFrame ==
    [][/\ (node = "discovery" /\ node' = "discovery_tools")
              => /\ discovery_messages' # discovery_messages
                 /\ UNCHANGED <<discovered_apps, current_app_index, scratchpad,
                                research_plan, current_phase, deep_research_messages,
                                errors, is_research_sufficient>>
       /\ (node = "deep_research" /\ node' = "deep_research_tools")
              => /\ deep_research_messages' # deep_research_messages
                 /\ UNCHANGED <<discovered_apps, current_app_index, scratchpad,
                                research_plan, current_phase, discovery_messages,
                                errors, is_research_sufficient>>
       /\ node = "discovery_tools"
              => /\ node' = "discovery"
                 /\ UNCHANGED <<discovered_apps, current_app_index, scratchpad,
                                research_plan, current_phase, deep_research_messages>>
       /\ node = "deep_research_tools"
              => /\ node' = "deep_research"
                 /\ UNCHANGED <<discovered_apps, current_app_index, scratchpad,
                                research_plan, current_phase, discovery_messages>>]_vars

\* the tools answered a request made for the second candidate and the
\* DeepResearch worker is next, on that candidate
C14_Witness ==
    /\ node = "deep_research"
    /\ current_app_index = 1
    /\ Len(discovered_apps) = 2
    /\ deep_research_messages # <<>>
    /\ Last(deep_research_messages).type = "tool"
    /\ Last(deep_research_messages).owner = 1

\* C15: merging into the merged scratchpad the delta that was just merged
\* leaves executed_queries and key_findings as they are.
C15_ScratchpadMergeIdempotent ==
    node = "reduced"
        => LET again == merge_scratchpad(scratchpad, delta.scratchpad)
           IN  /\ again.executed_queries = scratchpad.executed_queries
               /\ again.key_findings = scratchpad.key_findings

\* a delta that repeats a query and a finding has been merged into a
\* scratchpad that held neither
C15_Witness ==
    /\ node = "reduced"
    /\ delta.scratchpad.executed_queries = << <<"llm", "q1">>, <<"llm", "q1">> >>
    /\ delta.scratchpad.key_findings = <<"f1", "f1">>
    /\ scratchpad.executed_queries = << <<"llm", "q2">>, <<"llm", "q1">>, <<"llm", "q1">> >>
    /\ scratchpad.key_findings = <<"f1", "f1">>

\* C16: applying to the state a delta has been merged into the same delta
\* again leaves candidates, scratchpad and errors as they are.
C16_DuplicateDeltaNotDoubleCounted ==
    node = "reduced"
        => /\ add_apps(discovered_apps, delta.discovered_apps) = discovered_apps
           /\ merge_scratchpad(scratchpad, delta.scratchpad) = scratchpad
           /\ add_errors(errors, delta.errors) = errors

NoValidJson(text) ==
    /\ ~Loads(text.block)
    /\ ~Loads(text.whole)
    /\ ~Loads(text.array)
    /\ ~Loads(text.object)
    /\ text.block # "absent" => ~Loads(text.cleaned)

\* C18: no text makes the response parser raise, and for a text in which no
\* attempt finds valid JSON it returns no data and the five callers return
\* their fallbacks: no sub-queries, no candidates, the candidate with the raw
\* text appended and still incomplete, the failed-to-parse evaluation, no
\* patterns and no gaps.
C18_ParserNeverRaises ==
    node = "parsed"
        => /\ parsed.data # "raise"
           /\ NoValidJson(response_text)
                  => /\ parsed.data = "none"
                     /\ parsed.subqueries = <<>>
                     /\ parsed.apps = <<>>
                     /\ parsed.app = [ParsedApp EXCEPT !.raw_research = <<"raw">>]
                     /\ parsed.evaluation =
                            Evaluation(FALSE, <<>>, <<>>,
                                       "Failed to parse reflection response")
                     /\ parsed.patterns = [patterns |-> <<>>, gaps |-> <<>>]

\* a text with a fenced block that is not JSON even after the cleanup, and
\* brackets and braces that are not JSON either, has been parsed
C18_Witness ==
    /\ node = "parsed"
    /\ response_text = RawText("error", "error", "error", "error", "error")
    /\ parsed.data = "none"

\* index (from 0) of the first candidate not research_complete, the length
\* of the list when every candidate is
FirstIncomplete(apps) ==
    IF \E i \in DOMAIN apps : ~apps[i].research_complete
    THEN (CHOOSE i \in DOMAIN apps :
              /\ ~apps[i].research_complete
              /\ \A j \in 1..(i - 1) : apps[j].research_complete) - 1
    ELSE Len(apps)

\* C19: when a Discovery round that Reflection asked for hands over to
\* DeepResearch, the cursor is at the first candidate that is not
\* research_complete.
C19_RoundRestartsAtFirstIncomplete ==
    [][(node = "discovery" /\ node' = "deep_research" /\ reflection_log # <<>>)
          => current_app_index' = FirstIncomplete(discovered_apps')]_vars

NoDuplicates(s) == \A i, j \in DOMAIN s : i # j => s[i] # s[j]

\* C20: executed_queries and key_findings never hold the same string twice.
C20_ScratchpadListsUnique ==
    /\ NoDuplicates(scratchpad.executed_queries)
    /\ NoDuplicates(scratchpad.key_findings)

\* C21: a candidate holds raw research text only because its research text
\* could not be parsed: it then holds exactly that text, is not
\* research_complete and has the developer Discovery gave it; and every
\* candidate the cursor has passed without completing holds the raw text.
C21_UnparsedResearchKeptRaw ==
    \A i \in DOMAIN discovered_apps :
        LET app == discovered_apps[i]
        IN  /\ app.raw_research # <<>>
                   => /\ app.raw_research = <<"prose">>
                      /\ ~app.research_complete
                      /\ app.developer \in {"d0", ""}
                      /\ i <= current_app_index
            /\ (i <= current_app_index /\ ~app.research_complete)
                   => app.raw_research = <<"prose">>

\* the first candidate's research text was prose, the second's was parsed
C21_Witness ==
    /\ Len(discovered_apps) = 2
    /\ current_app_index = 2
    /\ discovered_apps[1].raw_research = <<"prose">>
    /\ ~discovered_apps[1].research_complete
    /\ discovered_apps[2].research_complete
    /\ discovered_apps[2].developer = "d1"

\* C22: no step removes or reorders candidates or changes a name; a step
\* that changes an existing candidate record is a terminal DeepResearch step
\* and the record is the one under the cursor; a DeepResearch step adds no
\* candidate.
C22_OnlyDeepResearchChangesItsCandidate ==
    [][/\ Len(discovered_apps') >= Len(discovered_apps)
       /\ \A i \in DOMAIN discovered_apps :
              /\ discovered_apps'[i].name = discovered_apps[i].name
              /\ discovered_apps'[i] # discovered_apps[i]
                     => /\ node = "deep_research"
                        /\ i = current_app_index + 1
                        /\ current_app_index' = current_app_index + 1
       /\ node = "deep_research" => Len(discovered_apps') = Len(discovered_apps)]_vars

\* two rounds have run and both candidates have been enriched from parsed
\* research texts
C22_Witness ==
    /\ reflection_log # <<>>
    /\ scratchpad.iteration_count = 3
    /\ current_app_index = 2
    /\ Len(discovered_apps) = 2
    /\ discovered_apps[1].name = <<70, 65>>
    /\ discovered_apps[1].developer = "d1"
    /\ discovered_apps[2].developer = "d1"

\* C23: no cursor position has had two terminal DeepResearch steps, there are
\* no more such steps than candidates, and no two candidates share a name
\* when case is ignored: a name Discovery lists again creates no second entry.
C23_EnrichedAtMostOnce ==
    /\ NoDuplicates(research_log)
    /\ Len(research_log) <= Len(discovered_apps)
    /\ NoCaseDuplicates(discovered_apps)

\* a second Discovery round has ended without a new candidate and the one
\* candidate's single enrichment is that of the first round
C23_Witness ==
    /\ node = "reflection"
    /\ Len(reflection_log) = 1
    /\ Len(discovered_apps) = 1
    /\ research_log = <<0>>

\* C24: after a Reflection whose LLM call returned, the scratchpad's gaps
\* list is the apps_needing_more_research list of that Reflection's
\* evaluation.
C24_GapsReplacedEachReflection ==
    (reflection_log # <<>> /\ Last(reflection_log).reply # "raise")
        => scratchpad.gaps_identified = Last(reflection_log).needs

\* C25: a parse failure leaves an entry in errors: a fallback plan in use, a
\* second Discovery iteration without any candidate, a candidate holding raw
\* research text, and a Reflection whose text gave no verdict each come with
\* a non-empty errors list.
C25_ParseFailureRecorded ==
    /\ (node = "discovery" /\ IsFallbackPlan) => errors # <<>>
    /\ (scratchpad.iteration_count >= 1 /\ discovered_apps = <<>>) => errors # <<>>
    /\ (\E i \in DOMAIN discovered_apps : discovered_apps[i].raw_research # <<>>)
           => errors # <<>>
    /\ (\E i \in DOMAIN reflection_log : reflection_log[i].reply = "unparseable")
           => errors # <<>>

\* C26: after a Discovery that ended with no candidate, and while there is
\* none, no DeepResearch LLM call has been made (no terminal step, no tool
\* request) and the run has not been cut short.
C26_ZeroCandidatesReachSynthesis ==
    (scratchpad.iteration_count >= 1 /\ discovered_apps = <<>>)
        => /\ research_log = <<>>
           /\ deep_research_messages = <<>>
           /\ node # "ABORTED"

\* C27: merging the delta in flight and then a later delta into the state
\* gives the candidates and the scratchpad that merging into the state the
\* merge of the two deltas gives.
C27_ReducersAssociative ==
    \A later \in LaterDeltas :
        /\ add_apps(add_apps(discovered_apps, delta.discovered_apps),
                    later.discovered_apps)
               = add_apps(discovered_apps,
                          add_apps(delta.discovered_apps, later.discovered_apps))
        /\ merge_scratchpad(merge_scratchpad(scratchpad, delta.scratchpad),
                            later.scratchpad)
               = merge_scratchpad(scratchpad,
                                  merge_scratchpad(delta.scratchpad, later.scratchpad))

\* a delta with its own gaps, a repeated query and a larger count has been
\* merged into a scratchpad that held other gaps and another query
C27_Witness ==
    /\ node = "reduced"
    /\ delta.scratchpad =
           ResearchScratchpad(<< <<"llm", "q1">>, <<"llm", "q1">> >>, <<"f1">>,
                              << <<67>> >>, 2)
    /\ scratchpad.executed_queries = << <<"llm", "q2">>, <<"llm", "q1">>, <<"llm", "q1">> >>
    /\ scratchpad.gaps_identified = << <<67>> >>
    /\ scratchpad.iteration_count = 2

\* C28: Reflection has run at most twice and at most its first execution
\* sent the run back to Discovery; a second execution saw iteration_count 3.
C28_OneRoundTrip ==
    /\ Len(reflection_log) <= 2
    /\ \A i \in DOMAIN reflection_log :
           /\ reflection_log[i].route = "discovery" => i = 1
           /\ i = 2 => reflection_log[i].iteration_count = 3

\* the second Reflection judged the research insufficient and still handed on
C28_Witness ==
    /\ Len(reflection_log) = 2
    /\ reflection_log[1].route = "discovery"
    /\ reflection_log[2].reply = "insufficient"
    /\ reflection_log[2].route = "pattern_extraction"
    /\ node = "synthesis"

\* C29: when Reflection, PatternExtraction or Synthesis is next, or the run
\* has ended after Synthesis, the cursor equals the number of candidates and
\* the terminal DeepResearch steps so far are one per candidate, in order.
C29_AllResearchedBeforeReflection ==
    node \in {"reflection", "pattern_extraction", "synthesis", "END"}
        => /\ current_app_index = Len(discovered_apps)
           /\ research_log = [i \in DOMAIN discovered_apps |-> i - 1]

\* Reflection is next for the second time, after two candidates
C29_Witness ==
    /\ node = "reflection"
    /\ Len(reflection_log) = 1
    /\ Len(discovered_apps) = 2
    /\ research_log = <<0, 1>>
    /\ scratchpad.iteration_count = 3

\* C30: when PatternExtraction or Synthesis is next, or the run has ended
\* after Synthesis, is_research_sufficient is true; after a Reflection, it
\* is false exactly when that Reflection routed to Discovery, and then
\* current_phase was set to Discovery (it is still so while Discovery runs).
C30_SufficientOnExit ==
    /\ node \in {"pattern_extraction", "synthesis", "END"} => is_research_sufficient
    /\ reflection_log # <<>>
           => (Last(reflection_log).route = "discovery" <=> ~is_research_sufficient)
    /\ (reflection_log # <<>> /\ node \in {"discovery", "discovery_tools"})
           => (~is_research_sufficient /\ current_phase = "discovery")

\* the cap forced the exit: the verdict was insufficient, the flag is true
C30_Witness ==
    /\ node = "pattern_extraction"
    /\ Last(reflection_log).reply = "insufficient"
    /\ Last(reflection_log).iteration_count = 3
    /\ is_research_sufficient

====
